---- MODULE Spec2Model ----
(***************************************************************************)
(* hue-ready-lamp: the multi-session arbitration of hue_control.py.        *)
(*                                                                         *)
(* Every invocation of hue_control.py is a short-lived process.  The       *)
(* processes share the sessions directory (one <session_id>.json file per  *)
(* session), the configuration file and the lamp.  A process is modelled   *)
(* at the granularity of its system calls on the shared directory: the     *)
(* directory listing, each read of a file, each unlink, the truncating     *)
(* open of write_text and the write that follows it are separate steps.    *)
(* Files of the directory whose suffix is not ".json" are skipped by both  *)
(* loops (lines 126 and 149) and are left out of the listing.              *)
(***************************************************************************)
EXTENDS Integers, Sequences, FiniteSets, TLC

\* ------------------------------------------------------------------ bounds
\* Invocations started in one behaviour of the concurrent specification.
MaxInv == 3
\* Clock advances other than the sleeps of the success path.
MaxTicks == 1

\* ---------------------------------------------------------------- universe
\* The callers: three sessions, and one caller that passes no session id.
Procs == {"A", "B", "C", "L"}
\* The names a file of the sessions directory can have.
Sessions == {"A", "B", "C"}
\* session_id = None (sys.argv has no third element)
NoSession == "None"
\* sys.argv has no second element
Missing == "<missing>"
\* a name that is no key of STATES
Bogus == "bogus"
\* a record without the field
NoField == "<nofield>"
NoTimestamp == -1
\* no command has reached the lamp yet
NoCommand == "<none>"

\* ------------------------------------------------------------ program data
STATES == {"thinking", "attention", "permission", "error", "success", "session", "off"}

STATE_PRIORITY ==
    [off |-> 0, session |-> 10, success |-> 20, thinking |-> 30,
     error |-> 40, attention |-> 50, permission |-> 60]

SUCCESS_DURATION == 5

STALE_THRESHOLD == 3600

\* PriorityGet with a default above every priority of the table.
PriorityGetUnknownFirst(state) ==
    IF state \in DOMAIN STATE_PRIORITY THEN STATE_PRIORITY[state] ELSE 100

\* STATE_PRIORITY.get(state, 0)
PriorityGet(state) ==
    IF state \in DOMAIN STATE_PRIORITY THEN STATE_PRIORITY[state] ELSE 0

\* --------------------------------------------------------- file contents
\* What a path of the sessions directory holds: nothing (no such file), an
\* empty file (what a truncating open leaves), other text that json.loads
\* rejects, or a JSON object, of which only the "state" and "timestamp"
\* fields are read.
Absent == [kind |-> "absent", state |-> NoField, timestamp |-> NoTimestamp]
Empty == [kind |-> "empty", state |-> NoField, timestamp |-> NoTimestamp]
Unparseable == [kind |-> "corrupt", state |-> NoField, timestamp |-> NoTimestamp]
Json(st, ts) == [kind |-> "json", state |-> st, timestamp |-> ts]

\* data.get("timestamp", 0)
GetTimestamp(data) ==
    IF data.timestamp = NoTimestamp THEN 0 ELSE data.timestamp

\* data.get("state", "off")
GetState(data) ==
    IF data.state = NoField THEN "off" ELSE data.state

\* IsStale with >= for the > of line 130.
IsStaleInclusive(t, data) == t - GetTimestamp(data) >= STALE_THRESHOLD

\* The test of line 130 on a parsed record.
IsStale(t, data) == t - GetTimestamp(data) > STALE_THRESHOLD

\* GcWantsUnlink with the handler of lines 132-137 left out: a file that
\* does not parse is left where it is.
GcWantsUnlinkParsedOnly(t, content) ==
    CASE content.kind = "absent" -> TRUE
      [] content.kind = "empty" -> FALSE
      [] content.kind = "corrupt" -> FALSE
      [] OTHER -> IsStale(t, content)

\* Lines 128-137 for one file: TRUE when the loop body goes on to unlink it
\* (stale, or json.loads raised); a file that vanished since the listing
\* raises OSError in read_text and the unlink of line 135 finds nothing.
GcWantsUnlink(t, content) ==
    CASE content.kind = "absent" -> TRUE
      [] content.kind = "empty" -> TRUE
      [] content.kind = "corrupt" -> TRUE
      [] OTHER -> IsStale(t, content)

\* ResolveStep with line 156 left out: best_priority keeps its first value.
ResolveStepStalePriority(best, content) ==
    IF content.kind = "json"
    THEN LET state == GetState(content)
             priority == PriorityGet(state)
         IN  IF priority > best.priority
             THEN [state |-> state, priority |-> best.priority]
             ELSE best
    ELSE best

\* Lines 151-159 for one file: the new (best_state, best_priority).
ResolveStep(best, content) ==
    IF content.kind = "json"
    THEN LET state == GetState(content)
             priority == PriorityGet(state)
         IN  IF priority > best.priority
             THEN [state |-> state, priority |-> priority]
             ELSE best
    ELSE best

\* ResolveInit with "session" as the state of an empty registry.
ResolveInitSession == [state |-> "session", priority |-> STATE_PRIORITY["session"]]

\* Lines 145-146.
ResolveInit == [state |-> "off", priority |-> STATE_PRIORITY["off"]]

\* SESSIONS_DIR.iterdir(): the names present when the directory is listed.
Listing(fs) == {s \in Sessions : fs[s].kind # "absent"}

\* Unlink that removes nothing.
UnlinkNothing(fs, s) == fs

\* session_file.unlink()
Unlink(fs, s) == [fs EXCEPT ![s] = Absent]

\* Truncate with the file opened for appending: what it holds stays.
TruncateAppend(fs, s) == [fs EXCEPT ![s] = IF @ = Absent THEN Empty ELSE @]

\* open(session_file, "w"): creates the file or truncates it to nothing.
Truncate(fs, s) == [fs EXCEPT ![s] = Empty]

\* f.write(json.dumps(data)) on the file opened above: the text parses as
\* data when nothing else is in the file.
WriteContent(fs, s, data) == [fs EXCEPT ![s] = IF @ = Empty THEN data ELSE Unparseable]

\* resolve_winning_state with nothing running in between: the values it can
\* return, one for each order in which iterdir() can yield the listing.
RECURSIVE ResolveFrom(_, _, _)
ResolveFrom(fs, todo, best) ==
    IF todo = {} THEN {best.state}
    ELSE UNION {ResolveFrom(fs, todo \ {s}, ResolveStep(best, fs[s])) : s \in todo}

ResolveWinningState(fs) == ResolveFrom(fs, Listing(fs), ResolveInit)

\* register_session_state with nothing running in between.
RegisterSessionState(fs, s, st, t) == WriteContent(Truncate(fs, s), s, Json(st, t))


\* ------------------------------------------------------------------- state
VARIABLES
    files,      \* SESSIONS_DIR: session id -> content of <session id>.json
    dirExists,  \* SESSIONS_DIR.exists()
    config,     \* CONFIG_PATH.exists()
    clock,      \* time.time(), in seconds
    light,      \* the state of the last command the bridge accepted
    inv,        \* the running invocations of main(), one per process slot
    started,    \* invocations started so far
    ticks,      \* clock advances so far
    seed        \* history: the directory as the behaviour found it

vars == <<files, dirExists, config, clock, light, inv, started, ticks, seed>>

\* The locals of one invocation.  pc is the position in main(); f is the loop
\* variable of the two directory loops and todo what iterdir() has yet to
\* yield; now is the local of cleanup_stale_sessions (kept after the function
\* returns, as a record of when it ran); best holds best_state
\* and best_priority; data is the record register_session_state is writing
\* and orphan tells that the file it opened has been unlinked since.  phase
\* counts the registrations of the success path.  cmds, nMut, nRes and
\* sawOther record history: the commands this invocation delivered, its
\* register/unregister calls, its resolve calls, and whether a record of
\* another session existed at any moment since it started; snaps records,
\* while resolve_winning_state runs, the highest priority the registry held
\* at each moment since its listing.
Idle ==
    [pc |-> "idle", state_name |-> Missing, session_id |-> NoSession,
     todo |-> {}, f |-> NoSession, now |-> 0, best |-> ResolveInit,
     winning |-> NoCommand, data |-> Absent, orphan |-> FALSE, phase |-> 0,
     exitcode |-> 0, killed |-> FALSE, cmds |-> <<>>, nMut |-> 0, nRes |-> 0,
     sawOther |-> FALSE, snaps |-> {}]

Running(r) == r.pc \notin {"idle", "done"}

\* The highest priority among the parseable records of a registry, 0 when
\* there is none.
MaxPriority(fs) ==
    LET ps == {PriorityGet(GetState(fs[s])) : s \in {x \in Sessions : fs[x].kind = "json"}} \cup {0}
    IN  CHOOSE m \in ps : \A x \in ps : x <= m

OthersRegistered(fs, sid) == \E s \in Sessions \ {sid} : fs[s].kind # "absent"

Observe(newInv, fs) ==
    [q \in Procs |->
        IF Running(newInv[q]) /\ newInv[q].session_id \in Sessions
        THEN [newInv[q] EXCEPT
                 !.sawOther = @ \/ OthersRegistered(fs, newInv[q].session_id),
                 !.snaps = IF newInv[q].pc = "rs_loop" THEN @ \cup {MaxPriority(fs)} ELSE {}]
        ELSE newInv[q]]

\* Process p moves to record r and the directory becomes fs.
Step(p, r, fs) ==
    /\ inv' = Observe([inv EXCEPT ![p] = r], fs)
    /\ files' = fs

\* The process ends: sys.exit(code), or the return of main().
Exit(r, code) ==
    [r EXCEPT !.pc = "done", !.exitcode = code, !.todo = {}, !.f = NoSession,
              !.best = ResolveInit, !.data = Absent, !.orphan = FALSE, !.snaps = {}]

\* ------------------------------------------------------------------ main()
\* Caller p runs `hue_control.py [state] [session_id]`, once its previous
\* invocation has ended: the invocations of one session id do not overlap
\* (callers are single-threaded per id).
SessionOf(p) == IF p \in Sessions THEN p ELSE NoSession

Start(p, st) ==
    /\ ~Running(inv[p])
    /\ started' = started + 1
    /\ Step(p, [Idle EXCEPT !.pc = "main", !.state_name = st, !.session_id = SessionOf(p)], files)
    /\ UNCHANGED <<dirExists, config, clock, light, ticks, seed>>

\* CheckArgs with load_config left out (lines 76-78): the invocation goes on
\* without a configuration.
CheckArgsNoConfigTest(p) ==
    LET r == inv[p] IN
    /\ r.pc = "main"
    /\ Step(p, IF r.state_name = Missing THEN Exit(r, 1)
               ELSE IF r.state_name \notin STATES THEN Exit(r, 1)
               ELSE IF r.session_id = NoSession THEN [r EXCEPT !.pc = "legacy_cmd"]
               ELSE [r EXCEPT !.pc = "gc_begin"],
            files)
    /\ UNCHANGED <<dirExists, config, clock, light, started, ticks, seed>>

\* CheckArgs without the mode switch of line 181: the legacy caller goes on
\* into the session-aware part.
CheckArgsNoLegacyMode(p) ==
    LET r == inv[p] IN
    /\ r.pc = "main"
    /\ Step(p, IF r.state_name = Missing THEN Exit(r, 1)
               ELSE IF r.state_name \notin STATES THEN Exit(r, 1)
               ELSE IF ~config THEN Exit(r, 1)
               ELSE [r EXCEPT !.pc = "gc_begin"],
            files)
    /\ UNCHANGED <<dirExists, config, clock, light, started, ticks, seed>>

\* Lines 165-186: the argument checks, load_config and the mode switch.
CheckArgs(p) ==
    LET r == inv[p] IN
    /\ r.pc = "main"
    /\ Step(p, IF r.state_name = Missing THEN Exit(r, 1)
               ELSE IF r.state_name \notin STATES THEN Exit(r, 1)
               ELSE IF ~config THEN Exit(r, 1)
               ELSE IF r.session_id = NoSession THEN [r EXCEPT !.pc = "legacy_cmd"]
               ELSE [r EXCEPT !.pc = "gc_begin"],
            files)
    /\ UNCHANGED <<dirExists, config, clock, light, started, ticks, seed>>

\* ------------------------------------------------- cleanup_stale_sessions()
AfterGcFile(r, rest) ==
    IF rest = {} THEN [r EXCEPT !.pc = "mutate", !.todo = {}, !.f = NoSession]
    ELSE [r EXCEPT !.pc = "gc_loop", !.todo = rest, !.f = NoSession]

\* Lines 122-125: the existence test, now = time.time() and the listing.
GcBegin(p) ==
    LET r == inv[p] IN
    /\ r.pc = "gc_begin"
    /\ Step(p, IF ~dirExists THEN [r EXCEPT !.pc = "mutate"]
               ELSE AfterGcFile([r EXCEPT !.now = clock], Listing(files)),
            files)
    /\ UNCHANGED <<dirExists, config, clock, light, started, ticks, seed>>

\* Lines 128-130 and 132: read and parse the next file of the listing.
GcRead(p) ==
    LET r == inv[p] IN
    /\ r.pc = "gc_loop"
    /\ \E s \in r.todo :
          Step(p, IF GcWantsUnlink(r.now, files[s])
                  THEN [r EXCEPT !.pc = "gc_unlink", !.f = s, !.todo = @ \ {s}]
                  ELSE AfterGcFile(r, r.todo \ {s}),
               files)
    /\ UNCHANGED <<dirExists, config, clock, light, started, ticks, seed>>

\* A process whose open file is unlinked goes on writing to a file that no
\* longer has a name.
Orphaned(s) ==
    [q \in Procs |->
        IF inv[q].pc = "reg_write" /\ inv[q].session_id = s
        THEN [inv[q] EXCEPT !.orphan = TRUE] ELSE inv[q]]

\* Lines 131 and 135: f.unlink(); a file already gone raises an OSError
\* that is swallowed.
GcUnlink(p) ==
    LET r == inv[p] IN
    /\ r.pc = "gc_unlink"
    /\ inv' = Observe([Orphaned(r.f) EXCEPT ![p] = AfterGcFile(r, r.todo)], Unlink(files, r.f))
    /\ files' = Unlink(files, r.f)
    /\ UNCHANGED <<dirExists, config, clock, light, started, ticks, seed>>

\* ----------------------------------------------------- unregister_session()
\* Lines 111-117 (called at line 193).
Unregister(p) ==
    LET r == inv[p] IN
    /\ r.pc = "mutate"
    /\ r.state_name = "off"
    /\ inv' = Observe([Orphaned(r.session_id) EXCEPT
                          ![p] = [r EXCEPT !.pc = "rs_begin", !.nMut = @ + 1]],
                      Unlink(files, r.session_id))
    /\ files' = Unlink(files, r.session_id)
    /\ UNCHANGED <<dirExists, config, clock, light, started, ticks, seed>>

\* ------------------------------------------------ register_session_state()
\* The state main() registers: the requested one, and "session" the second
\* time round on the success path (lines 199, 203, 209).
RegisteredState(r) == IF r.phase = 1 THEN "session" ELSE r.state_name

\* Lines 105-108 up to the open of write_text: mkdir, the record with
\* time.time(), and the truncating open.
RegOpen(p) ==
    LET r == inv[p] IN
    /\ r.pc = "mutate"
    /\ r.state_name # "off"
    /\ dirExists' = TRUE
    /\ Step(p, [r EXCEPT !.pc = "reg_write", !.data = Json(RegisteredState(r), clock),
                         !.orphan = FALSE],
            Truncate(files, r.session_id))
    /\ UNCHANGED <<config, clock, light, started, ticks, seed>>

\* Line 108, the write and close of write_text.
RegWrite(p) ==
    LET r == inv[p] IN
    /\ r.pc = "reg_write"
    /\ Step(p, [r EXCEPT !.pc = "rs_begin", !.data = Absent, !.orphan = FALSE,
                         !.nMut = @ + 1, !.phase = @ + 1],
            IF r.orphan THEN files ELSE WriteContent(files, r.session_id, r.data))
    /\ UNCHANGED <<dirExists, config, clock, light, started, ticks, seed>>

\* mkdir or open raises OSError: nothing is caught, the process dies with a
\* traceback and exit status 1.
RegOpenFail(p) ==
    LET r == inv[p] IN
    /\ r.pc = "mutate"
    /\ r.state_name # "off"
    /\ Step(p, Exit(r, 1), files)
    /\ UNCHANGED <<dirExists, config, clock, light, started, ticks, seed>>

\* RegWriteFail with the OSError swallowed: main() goes on to resolve.
RegWriteFailSwallowed(p) ==
    LET r == inv[p] IN
    /\ r.pc = "reg_write"
    /\ Step(p, [r EXCEPT !.pc = "rs_begin", !.data = Absent, !.orphan = FALSE,
                         !.nMut = @ + 1, !.phase = @ + 1],
            files)
    /\ UNCHANGED <<dirExists, config, clock, light, started, ticks, seed>>

\* The write raises OSError (disk full): the file stays truncated.
RegWriteFail(p) ==
    LET r == inv[p] IN
    /\ r.pc = "reg_write"
    /\ Step(p, Exit(r, 1), files)
    /\ UNCHANGED <<dirExists, config, clock, light, started, ticks, seed>>

\* ------------------------------------------------- resolve_winning_state()
AfterResolveFile(r, best, rest) ==
    IF rest = {}
    THEN [r EXCEPT !.pc = "cmd", !.winning = best.state, !.best = ResolveInit,
                   !.todo = {}, !.nRes = @ + 1]
    ELSE [r EXCEPT !.pc = "rs_loop", !.best = best, !.todo = rest]

\* Lines 142-148: the existence test, the initial best and the listing.
RsBegin(p) ==
    LET r == inv[p] IN
    /\ r.pc = "rs_begin"
    /\ Step(p, AfterResolveFile(r, ResolveInit, IF dirExists THEN Listing(files) ELSE {}),
            files)
    /\ UNCHANGED <<dirExists, config, clock, light, started, ticks, seed>>

\* Lines 151-159: read the next file of the listing.
RsRead(p) ==
    LET r == inv[p] IN
    /\ r.pc = "rs_loop"
    /\ \E s \in r.todo :
          Step(p, AfterResolveFile(r, ResolveStep(r.best, files[s]), r.todo \ {s}), files)
    /\ UNCHANGED <<dirExists, config, clock, light, started, ticks, seed>>

\* ------------------------------------------------------- set_light_state()
\* CommandedState with the requested state passed at lines 195-211 in place
\* of the resolved one.
CommandedStateRequested(r) ==
    CASE r.pc = "legacy_cmd" -> r.state_name
      [] r.pc = "legacy_off" -> "off"
      [] OTHER -> IF r.phase = 2 THEN "session" ELSE r.state_name

\* The state each call site of set_light_state passes.
CommandedState(r) ==
    CASE r.pc = "legacy_cmd" -> r.state_name
      [] r.pc = "legacy_off" -> "off"
      [] OTHER -> r.winning

\* Where main() goes after the call returns.
AfterCommand(r) ==
    CASE r.pc = "legacy_cmd" /\ r.state_name = "success" -> [r EXCEPT !.pc = "legacy_sleep"]
      [] r.pc = "cmd" /\ r.state_name = "success" /\ r.phase = 1 -> [r EXCEPT !.pc = "sleep"]
      [] OTHER -> Exit(r, 0)

AtCommand(r) == r.pc \in {"legacy_cmd", "legacy_off", "cmd"}

\* Lines 83-97: requests.put succeeds; a name that is no key of STATES exits
\* with status 1 before anything is sent.
Command(p) ==
    LET r == inv[p] st == CommandedState(r) IN
    /\ AtCommand(r)
    /\ IF st \in STATES
       THEN /\ light' = st
            /\ Step(p, AfterCommand([r EXCEPT !.cmds = Append(@, st)]), files)
       ELSE /\ light' = light
            /\ Step(p, Exit(r, 1), files)
    /\ UNCHANGED <<dirExists, config, clock, started, ticks, seed>>

\* CommandFail with the handler of lines 98-100 passing instead of exiting:
\* main() goes on as if the command had been sent.
CommandFailSwallowed(p) ==
    LET r == inv[p] IN
    /\ AtCommand(r)
    /\ CommandedState(r) \in STATES
    /\ Step(p, AfterCommand(r), files)
    /\ UNCHANGED <<dirExists, config, clock, light, started, ticks, seed>>

\* Lines 98-100: requests.put raises RequestException.
CommandFail(p) ==
    LET r == inv[p] IN
    /\ AtCommand(r)
    /\ CommandedState(r) \in STATES
    /\ Step(p, Exit(r, 1), files)
    /\ UNCHANGED <<dirExists, config, clock, light, started, ticks, seed>>

\* Sleep with lines 203-204 left out: after the sleep the session-aware
\* success path commands "session" without registering and resolving again.
SleepThenSession(p) ==
    LET r == inv[p] IN
    /\ r.pc \in {"sleep", "legacy_sleep"}
    /\ clock' = clock + SUCCESS_DURATION
    /\ Step(p, IF r.pc = "sleep"
               THEN [r EXCEPT !.pc = "cmd", !.winning = "session", !.phase = 2,
                              !.nMut = @ + 1, !.nRes = @ + 1]
               ELSE [r EXCEPT !.pc = "legacy_off"],
            files)
    /\ UNCHANGED <<dirExists, config, light, started, ticks, seed>>

\* Lines 184 and 202: time.sleep(SUCCESS_DURATION).
Sleep(p) ==
    LET r == inv[p] IN
    /\ r.pc \in {"sleep", "legacy_sleep"}
    /\ clock' = clock + SUCCESS_DURATION
    /\ Step(p, [r EXCEPT !.pc = IF r.pc = "sleep" THEN "mutate" ELSE "legacy_off"], files)
    /\ UNCHANGED <<dirExists, config, light, started, ticks, seed>>

\* ------------------------------------------------------------- environment
\* Kill with a handler that unregisters the session before the process ends.
KillUnregisters(p) ==
    LET r == inv[p] IN
    /\ r.pc \in {"sleep", "legacy_sleep", "reg_write"}
    /\ Step(p, [Exit(r, 1) EXCEPT !.killed = TRUE],
            IF r.session_id \in Sessions THEN Unlink(files, r.session_id) ELSE files)
    /\ UNCHANGED <<dirExists, config, clock, light, started, ticks, seed>>

\* The process is killed (no handler, no cleanup).  A kill between the open
\* and the write of write_text leaves the truncated file.
Kill(p) ==
    LET r == inv[p] IN
    /\ r.pc \in {"sleep", "legacy_sleep", "reg_write"}
    /\ Step(p, [Exit(r, 1) EXCEPT !.killed = TRUE], files)
    /\ UNCHANGED <<dirExists, config, clock, light, started, ticks, seed>>

TickSteps == {1, STALE_THRESHOLD}

Tick(d) ==
    /\ ticks < MaxTicks
    /\ ticks' = ticks + 1
    /\ clock' = clock + d
    /\ UNCHANGED <<files, dirExists, config, light, inv, started, seed>>

\* hue_setup.py has written the configuration.
RunSetup ==
    /\ ~config
    /\ config' = TRUE
    /\ UNCHANGED <<files, dirExists, clock, light, inv, started, ticks, seed>>

\* ---------------------------------------------------------- specifications
\* Concurrent invocations of sessions A and B on a fresh installation that
\* hue_setup.py has configured; every system call succeeds.
InitConcurrent ==
    /\ files = [s \in Sessions |-> Absent]
    /\ dirExists = FALSE
    /\ config = TRUE
    /\ clock = 0
    /\ light = NoCommand
    /\ inv = [p \in Procs |-> Idle]
    /\ started = 0
    /\ ticks = 0
    /\ seed = files

ConcurrentCallers == {"A", "B"}
ConcurrentStates == {"off", "success", "thinking", "attention"}

NextConcurrent ==
    \/ \E p \in ConcurrentCallers, st \in ConcurrentStates : started < MaxInv /\ Start(p, st)
    \/ \E p \in Procs : CheckArgs(p)
    \/ \E p \in Procs : GcBegin(p)
    \/ \E p \in Procs : GcRead(p)
    \/ \E p \in Procs : GcUnlink(p)
    \/ \E p \in Procs : Unregister(p)
    \/ \E p \in Procs : RegOpen(p)
    \/ \E p \in Procs : RegWrite(p)
    \/ \E p \in Procs : RsBegin(p)
    \/ \E p \in Procs : RsRead(p)
    \/ \E p \in Procs : Command(p)
    \/ \E p \in Procs : Sleep(p)

SpecConcurrent == InitConcurrent /\ [][NextConcurrent]_vars

\* One invocation, by session A or by the caller without session id, run
\* alone on a directory that earlier invocations, kills and foreign writers
\* have left in any state; system calls may fail and the process may be
\* killed.
SeedClock == STALE_THRESHOLD + 1

SeedStates == STATES \cup {Bogus, NoField}
SeedOthers ==
    {Absent, Unparseable}
        \cup {Json(st, SeedClock) : st \in SeedStates}
        \cup {Json("thinking", t) : t \in {NoTimestamp, 0, 1}}
SeedOwn == {Absent, Json("attention", SeedClock), Json("thinking", SeedClock), Json("thinking", 0)}

InitSingle ==
    /\ \E a \in SeedOwn, b \in SeedOthers, c \in SeedOthers :
          files = [s \in Sessions |-> IF s = "A" THEN a ELSE IF s = "B" THEN b ELSE c]
    /\ dirExists = (Listing(files) # {})
    /\ config = FALSE
    /\ clock = SeedClock
    /\ light = NoCommand
    /\ inv = [p \in Procs |-> Idle]
    /\ started = 0
    /\ ticks = 0
    /\ seed = files

SingleCallers == {"A", "L"}
SingleStates == {"off", "success", "thinking", Bogus, Missing}

NextSingle ==
    \/ \E p \in SingleCallers, st \in SingleStates :
          /\ started = 0
          /\ Start(p, st)
    \/ \E p \in Procs : CheckArgs(p)
    \/ \E p \in Procs : GcBegin(p)
    \/ \E p \in Procs : GcRead(p)
    \/ \E p \in Procs : GcUnlink(p)
    \/ \E p \in Procs : Unregister(p)
    \/ \E p \in Procs : RegOpen(p)
    \/ \E p \in Procs : RegWrite(p)
    \/ \E p \in Procs : RegOpenFail(p)
    \/ \E p \in Procs : RegWriteFail(p)
    \/ \E p \in Procs : RsBegin(p)
    \/ \E p \in Procs : RsRead(p)
    \/ \E p \in Procs : Command(p)
    \/ \E p \in Procs : CommandFail(p)
    \/ \E p \in Procs : Sleep(p)
    \/ \E p \in Procs : Kill(p)
    \/ \E d \in TickSteps : Tick(d)
    \/ RunSetup

SpecSingle == InitSingle /\ [][NextSingle]_vars

\* Sessions A, B and C each run one invocation, concurrently, on the
\* registry an earlier `thinking A` has left; every system call succeeds.
InitSnapshot ==
    /\ files = [s \in Sessions |-> IF s = "A" THEN Json("thinking", 0) ELSE Absent]
    /\ dirExists = TRUE
    /\ config = TRUE
    /\ clock = 0
    /\ light = "thinking"
    /\ inv = [p \in Procs |-> Idle]
    /\ started = 0
    /\ ticks = 0
    /\ seed = files

SnapshotRequests == {<<"A", "off">>, <<"B", "attention">>, <<"C", "session">>}

NextSnapshot ==
    \/ \E q \in SnapshotRequests : inv[q[1]].pc = "idle" /\ Start(q[1], q[2])
    \/ \E p \in Procs : CheckArgs(p)
    \/ \E p \in Procs : GcBegin(p)
    \/ \E p \in Procs : GcRead(p)
    \/ \E p \in Procs : GcUnlink(p)
    \/ \E p \in Procs : Unregister(p)
    \/ \E p \in Procs : RegOpen(p)
    \/ \E p \in Procs : RegWrite(p)
    \/ \E p \in Procs : RsBegin(p)
    \/ \E p \in Procs : RsRead(p)
    \/ \E p \in Procs : Command(p)

SpecSnapshot == InitSnapshot /\ [][NextSnapshot]_vars

\* Invocations that do not overlap: one starts only when no other is between
\* its first and its last step, the sleep of the success path excepted (an
\* invocation may run while another sleeps, and a sleeper resumes only when
\* no other is at work).  A fresh installation that hue_setup.py has
\* configured, used by two sessions; every system call succeeds; a
\* sleeping process may be killed, and time passes between invocations.
Resting(r) == r.pc \in {"idle", "done", "sleep", "legacy_sleep"}

OthersResting(p) == \A q \in Procs \ {p} : Resting(inv[q])

InitSerial ==
    /\ files = [s \in Sessions |-> Absent]
    /\ dirExists = FALSE
    /\ config = TRUE
    /\ clock = 0
    /\ light = NoCommand
    /\ inv = [p \in Procs |-> Idle]
    /\ started = 0
    /\ ticks = 0
    /\ seed = files

SerialCallers == {"A", "B"}
SerialStates == {"off", "success", "thinking", "attention"}

NextSerial ==
    \/ \E p \in SerialCallers, st \in SerialStates :
          /\ started < MaxInv
          /\ OthersResting(p)
          /\ Start(p, st)
    \/ \E p \in Procs : CheckArgs(p)
    \/ \E p \in Procs : GcBegin(p)
    \/ \E p \in Procs : GcRead(p)
    \/ \E p \in Procs : GcUnlink(p)
    \/ \E p \in Procs : Unregister(p)
    \/ \E p \in Procs : RegOpen(p)
    \/ \E p \in Procs : RegWrite(p)
    \/ \E p \in Procs : RsBegin(p)
    \/ \E p \in Procs : RsRead(p)
    \/ \E p \in Procs : Command(p)
    \/ \E p \in Procs : OthersResting(p) /\ Sleep(p)
    \/ \E p \in Procs : inv[p].pc = "sleep" /\ Kill(p)
    \/ (\A p \in Procs : ~Running(inv[p])) /\ Tick(STALE_THRESHOLD)

SpecSerial == InitSerial /\ [][NextSerial]_vars

\* ------------------------------------------------------------ the claims
\* The winner as the specification states it: the catalog state that has
\* the highest priority among the parseable records, 0 when there is none.
IsWinnerOf(w, fs) == w \in DOMAIN STATE_PRIORITY /\ STATE_PRIORITY[w] = MaxPriority(fs)

SessionAware(r) == r.session_id \in Sessions

Quiescent == \A p \in Procs : ~Running(inv[p])

\* C1: once all concurrent session-aware invocations have finished, the
\* state of the last command delivered to the lamp is the winner of the
\* registry (the highest-priority registered state, or off).
C1_QuiescentLightIsWinner ==
    (Quiescent /\ \E p \in Procs : inv[p].pc = "done") => IsWinnerOf(light, files)

\* C2: with no concurrent writer, resolve_winning_state returns the state
\* whose priority is the maximum among the parseable records, whatever the
\* order of the listing, and off when the registry is empty or the directory
\* does not exist.
C2_ResolveReturnsMaxPriority ==
    \A p \in Procs :
        inv[p].pc = "cmd" =>
            /\ IsWinnerOf(inv[p].winning, files)
            /\ (~dirExists \/ Listing(files) = {}) => inv[p].winning = "off"

C2_Witness ==
    /\ inv["A"].pc = "cmd"
    /\ inv["A"].winning = "permission"
    /\ files["A"].state = "thinking"
    /\ files["B"].state = "attention"
    /\ files["C"].state = "permission"

\* C3: in a session-aware invocation every register or unregister is
\* followed, before the next one and before the exit, by exactly one resolve
\* and exactly one command, and the command carries what the resolve
\* returned.
C3_OneResolveOneCommandPerMutation ==
    \A p \in Procs :
        LET r == inv[p] IN
        SessionAware(r) =>
            /\ r.nRes = Len(r.cmds) + (IF r.pc = "cmd" THEN 1 ELSE 0)
            /\ r.nMut = r.nRes + (IF r.pc \in {"rs_begin", "rs_loop"} THEN 1 ELSE 0)
            /\ (r.pc \notin {"rs_begin", "rs_loop", "cmd"} /\ r.cmds # <<>>)
                   => r.cmds[Len(r.cmds)] = r.winning
            /\ r.pc = "done" => r.nMut = (IF r.state_name = "success" THEN 2 ELSE 1)

C3_Witness ==
    /\ inv["A"].pc = "done"
    /\ inv["A"].state_name = "success"
    /\ inv["A"].nMut = 2
    /\ inv["A"].cmds = <<"attention", "attention">>
    /\ inv["B"].state_name = "attention"

\* The process whose step this is.
Acted(p) == inv'[p].pc # inv[p].pc \/ inv'[p].todo # inv[p].todo

\* C4: an invocation for session S never creates or overwrites the record
\* of another session T, and deletes it only in garbage collection and only
\* when, at the moment of the unlink, T's record is stale or unparseable.
C4_OthersRecordOnlyCollectedWhenStale ==
    [][\A p \in Procs, t \in Sessions :
          (Acted(p) /\ t # inv[p].session_id /\ files'[t] # files[t]) =>
              /\ inv[p].pc = "gc_unlink"
              /\ files'[t] = Absent
              /\ \/ files[t].kind \in {"empty", "corrupt"}
                 \/ files[t].kind = "json" /\ IsStale(clock, files[t])]_vars

\* C5: while register_session_state is writing the record of session S, no
\* other invocation sees that record empty or partial: none finds it
\* unparseable in its garbage collection and goes on to delete it, and the
\* file being written is never unlinked under the writer.
C5_RegisterIsAtomic ==
    \A p \in Procs :
        inv[p].pc = "reg_write" =>
            /\ ~inv[p].orphan
            /\ \A q \in Procs \ {p} :
                   ~(inv[q].pc = "gc_unlink" /\ inv[q].f = inv[p].session_id)

\* C6: a success invocation that runs to its end while no other session has
\* a record commands success first and session last, and leaves exactly one
\* record, its own, with state session.
C6_SuccessDemotesToSession ==
    \A p \in Procs :
        LET r == inv[p] IN
        (SessionAware(r) /\ r.state_name = "success" /\ r.pc = "done"
            /\ r.exitcode = 0 /\ ~r.killed /\ ~r.sawOther) =>
            /\ r.cmds = <<"success", "session">>
            /\ Listing(files) = {r.session_id}
            /\ files[r.session_id].kind = "json"
            /\ files[r.session_id].state = "session"

\* What a legacy invocation that ends normally has sent to the lamp.
LegacyCommands(st) == IF st = "success" THEN <<"success", "off">> ELSE <<st>>

IsPrefix(a, b) == Len(a) <= Len(b) /\ \A i \in 1..Len(a) : a[i] = b[i]

\* C7: an invocation without session id runs no garbage collection, no
\* register, no unregister and no resolve, leaves every file of the registry
\* as it is, and commands exactly the requested state; for success it
\* commands success and, after the sleep, off, whatever is registered.
C7_LegacyBypassesRegistry ==
    /\ [](\A p \in Procs :
            LET r == inv[p] IN
            (r.pc # "idle" /\ ~SessionAware(r)) =>
                /\ r.pc \in {"main", "legacy_cmd", "legacy_sleep", "legacy_off", "done"}
                /\ r.nMut = 0 /\ r.nRes = 0
                /\ IsPrefix(r.cmds, LegacyCommands(r.state_name))
                /\ (r.pc = "done" /\ r.exitcode = 0 /\ ~r.killed)
                       => r.cmds = LegacyCommands(r.state_name))
    /\ [][\A p \in Procs :
            (Acted(p) /\ ~SessionAware(inv'[p])) =>
                /\ files' = files
                /\ dirExists' = dirExists
                /\ Len(inv'[p].cmds) > Len(inv[p].cmds)
                       => light' = inv'[p].cmds[Len(inv'[p].cmds)]]_vars

C7_Witness ==
    /\ inv["L"].pc = "done"
    /\ inv["L"].state_name = "success"
    /\ inv["L"].cmds = <<"success", "off">>
    /\ light = "off"
    /\ files["B"].kind = "json" /\ files["B"].state = "permission"
    /\ files["C"].kind = "corrupt"

\* What the specification lets a garbage collection at time t leave of a
\* record: the record itself when it parses and t - timestamp <= 3600 (the
\* timestamp counting as 0 when the field is missing), nothing otherwise.
Survivor(rec, t) ==
    IF rec.kind = "json"
           /\ t - (IF rec.timestamp = NoTimestamp THEN 0 ELSE rec.timestamp) <= 3600
    THEN rec ELSE Absent

\* C8: garbage collection deletes every record with now - timestamp > 3600
\* and keeps every parseable record with now - timestamp <= 3600 unchanged;
\* it has run before the invocation registers, unregisters or resolves, so
\* a record of another session that was stale then is in no later listing
\* and in no winner of the invocation.
C8_GarbageCollectionRemovesExactlyStale ==
    \A p \in Procs :
        LET r == inv[p] IN
        SessionAware(r) =>
            /\ (r.pc = "mutate" /\ r.nMut = 0) =>
                   \A s \in Sessions : files[s] = Survivor(seed[s], r.now)
            /\ r.pc \in {"mutate", "reg_write", "rs_begin", "rs_loop", "cmd", "sleep"} =>
                   \A s \in Sessions \ {r.session_id} :
                       /\ files[s] = Survivor(seed[s], r.now)
                       /\ Survivor(seed[s], r.now) = Absent => s \notin r.todo
            /\ r.pc \in {"cmd", "sleep"} => IsWinnerOf(r.winning, files)

C8_Witness ==
    /\ inv["A"].pc = "mutate" /\ inv["A"].nMut = 0
    /\ inv["A"].now = STALE_THRESHOLD + 1
    /\ seed["A"] = Json("thinking", 0) /\ files["A"] = Absent
    /\ seed["B"] = Json("thinking", 1) /\ files["B"] = seed["B"]
    /\ seed["C"] = Json("thinking", NoTimestamp) /\ files["C"] = Absent

\* C9: a session-aware off removes the caller's record and nothing else (it
\* is no error when there is none), leaves the fresh records of the other
\* sessions as they were, and commands the highest-priority state among the
\* records that remain, off when none remains.
C9_OffRemovesOwnRecordOnly ==
    \A p \in Procs :
        LET r == inv[p] IN
        (SessionAware(r) /\ r.state_name = "off" /\ r.nMut = 1) =>
            /\ files[r.session_id] = Absent
            /\ \A s \in Sessions \ {r.session_id} :
                   (seed[s].kind = "json" /\ Survivor(seed[s], r.now) = seed[s])
                       => files[s] = seed[s]
            /\ (r.pc = "done" /\ r.exitcode = 1) => r.nRes = 1 /\ r.cmds = <<>>
            /\ (r.pc = "done" /\ r.exitcode = 0) =>
                   /\ r.cmds = <<light>>
                   /\ IsWinnerOf(light, files)

C9_Witness ==
    /\ inv["A"].pc = "done" /\ inv["A"].state_name = "off" /\ inv["A"].exitcode = 0
    /\ seed["A"] = Json("attention", SeedClock)
    /\ seed["B"] = Json("thinking", SeedClock)
    /\ seed["C"] = Absent
    /\ files["A"] = Absent /\ files["B"] = seed["B"]
    /\ inv["A"].cmds = <<"thinking">> /\ light = "thinking"

\* The (session id, state) pairs of a registry.
StatePairs(fs) == {<<s, fs[s].kind, fs[s].state>> : s \in Listing(fs)}

\* C10: registering the same (session id, state) twice in succession leaves
\* the same (session id, state) pairs and the same resolved winner as
\* registering it once; only the timestamp of that one record may differ.
\* Stated of register_session_state on every registry an invocation can meet
\* (the directory as found, before the invocation starts), and of the run: an
\* invocation that registers the state its fresh record already holds, and
\* whose garbage collection removed nothing, leaves the pairs and the winner
\* of the registry it found.
C10_RegisterIsIdempotent ==
    /\ started = 0 =>
           \A s \in Sessions, st \in STATES :
               LET once == RegisterSessionState(files, s, st, clock)
                   twice == RegisterSessionState(once, s, st, clock + 1)
               IN  /\ once[s] = Json(st, clock)
                   /\ StatePairs(twice) = StatePairs(once)
                   /\ \A u \in Sessions \ {s} : twice[u] = once[u] /\ once[u] = files[u]
                   /\ twice[s] = Json(st, clock + 1)
                   /\ ResolveWinningState(twice) = ResolveWinningState(once)
                   /\ Cardinality(ResolveWinningState(once)) = 1
    /\ \A p \in Procs :
           LET r == inv[p] IN
           (/\ SessionAware(r) /\ r.nMut = 1 /\ r.pc \in {"rs_begin", "rs_loop", "cmd"}
            /\ seed[r.session_id].kind = "json"
            /\ seed[r.session_id].state = r.state_name
            /\ \A s \in Sessions : Survivor(seed[s], r.now) = seed[s]) =>
               /\ StatePairs(files) = StatePairs(seed)
               /\ files[r.session_id].timestamp >= seed[r.session_id].timestamp
               /\ r.pc = "cmd" => ResolveWinningState(seed) = {r.winning}

C10_Witness ==
    /\ inv["A"].pc = "cmd" /\ inv["A"].state_name = "thinking" /\ inv["A"].nMut = 1
    /\ seed["A"] = Json("thinking", SeedClock)
    /\ seed["B"] = Json("session", SeedClock)
    /\ seed["C"] = Absent
    /\ files["A"].state = "thinking" /\ files["A"].timestamp > SeedClock
    /\ files["B"] = seed["B"]
    /\ inv["A"].winning = "thinking"

\* A registry with the files that do not parse taken away.
WithoutCorrupt(fs) ==
    [s \in Sessions |-> IF fs[s].kind \in {"empty", "corrupt"} THEN Absent ELSE fs[s]]

\* What an invocation for session sid that collected garbage at time t
\* would find after its registration, had the files that do not parse never
\* been in the directory it started on.
AsIfNoCorrupt(sid, t) ==
    [s \in Sessions |-> IF s = sid THEN files[s] ELSE Survivor(WithoutCorrupt(seed)[s], t)]

Untouched(r) ==
    /\ r.pc \in {"main", "done"}
    /\ r.pc = "done" => r.exitcode = 1
    /\ r.cmds = <<>> /\ r.nMut = 0 /\ r.nRes = 0 /\ r.now = 0
    /\ files = seed
    /\ dirExists = (Listing(seed) # {})
    /\ light = NoCommand

\* C12: an invocation with no state name, with a state name that is no key
\* of STATES, or with no configuration present ends with exit code 1 before
\* any garbage collection, any register or unregister and any command: the
\* registry and the lamp stay exactly as they were, with or without a
\* session id.
C12_FatalPreconditionsHaveNoEffect ==
    /\ [](\A p \in Procs :
            LET r == inv[p] IN
            r.pc # "idle" =>
                /\ (r.state_name = Missing \/ r.state_name \notin STATES) => Untouched(r)
                /\ ~config => Untouched(r))
    /\ [][\A p \in Procs :
            /\ (inv[p].pc = "main" /\ inv'[p].pc # "main"
                    /\ (inv[p].state_name \notin STATES \/ ~config)) =>
                   /\ inv'[p].pc = "done" /\ inv'[p].exitcode = 1
                   /\ inv'[p].cmds = <<>> /\ inv'[p].nMut = 0 /\ inv'[p].nRes = 0
                   /\ files' = files /\ dirExists' = dirExists /\ light' = light
            /\ inv[p].pc = "done" => (inv'[p] = inv[p] /\ files' = files /\ light' = light)]_vars

C12_Witness ==
    /\ inv["A"].pc = "done" /\ inv["A"].exitcode = 1 /\ inv["A"].state_name = Bogus
    /\ config
    /\ seed["B"] = Unparseable /\ files["B"] = Unparseable
    /\ seed["C"] = Json("thinking", 0) /\ files["C"] = seed["C"]
    /\ clock - files["C"].timestamp > STALE_THRESHOLD
    /\ light = NoCommand

\* The session-aware invocation r has ended in a call of set_light_state
\* that sent nothing: it resolved once more than it commanded.
SinkFailed(r) == SessionAware(r) /\ r.pc = "done" /\ r.nRes = Len(r.cmds) + 1

LastCommand(r) == IF r.cmds = <<>> THEN NoCommand ELSE r.cmds[Len(r.cmds)]

\* C13: a failed call of the lamp ends the invocation there with exit code
\* 1: no retry, no further command, no further register or unregister, and
\* what it registered or unregistered before stays; a session-aware success
\* invocation whose first call fails never sleeps and never registers
\* session, so its record stays at success.
C13_SinkFailureExitsAtOnce ==
    /\ [](\A p \in Procs :
            LET r == inv[p] IN
            /\ SessionAware(r) =>
                   /\ r.nRes \in {Len(r.cmds), Len(r.cmds) + 1}
                   /\ r.nRes = Len(r.cmds) + 1 => r.pc \in {"cmd", "done"}
            /\ SinkFailed(r) =>
                   /\ r.exitcode = 1
                   /\ r.nMut = r.nRes
                   /\ light = LastCommand(r)
                   /\ r.state_name = "off" => files[r.session_id] = Absent
                   /\ (r.state_name # "off" /\ r.nMut = 1) =>
                          /\ files[r.session_id].kind = "json"
                          /\ files[r.session_id].state = r.state_name
                   /\ (r.state_name = "success" /\ r.nMut = 2) =>
                          /\ files[r.session_id].kind = "json"
                          /\ files[r.session_id].state = "session")
    /\ [][\A p \in Procs :
            /\ (AtCommand(inv[p]) /\ inv'[p].pc # inv[p].pc /\ inv'[p].cmds = inv[p].cmds) =>
                   /\ inv'[p].pc = "done" /\ inv'[p].exitcode = 1
                   /\ inv'[p].nMut = inv[p].nMut
                   /\ files' = files /\ light' = light /\ clock' = clock
            /\ (inv[p].pc = "done" /\ inv[p].exitcode = 1) =>
                   (inv'[p] = inv[p] /\ files' = files /\ light' = light)]_vars

C13_Witness ==
    /\ inv["A"].pc = "done" /\ inv["A"].exitcode = 1 /\ ~inv["A"].killed
    /\ inv["A"].state_name = "success"
    /\ inv["A"].nMut = 1 /\ inv["A"].nRes = 1 /\ inv["A"].cmds = <<>>
    /\ seed["A"] = Json("attention", SeedClock)
    /\ files["A"].kind = "json" /\ files["A"].state = "success"
    /\ clock = SeedClock
    /\ light = NoCommand

\* The state the last completed registration of r wrote.
LastRegistered(r) == IF r.phase = 2 THEN "session" ELSE r.state_name

\* C14: when the write of the caller's own record fails (mkdir, the open or
\* the write raises), the invocation ends with a non-zero exit code and
\* sends no command afterwards; a registering invocation resolves and
\* commands only once the register step has completed, with the record it
\* wrote in the registry.
C14_WriteFailureSendsNoCommand ==
    /\ [](\A p \in Procs :
            LET r == inv[p] IN
            (SessionAware(r) /\ r.state_name \in STATES \ {"off"}) =>
                /\ Len(r.cmds) <= r.nMut /\ r.nRes <= r.nMut /\ r.nMut = r.phase
                /\ r.pc \in {"rs_begin", "rs_loop", "cmd"} =>
                       /\ r.nMut >= 1
                       /\ files[r.session_id].kind = "json"
                       /\ files[r.session_id].state = LastRegistered(r)
                /\ (r.pc = "done" /\ r.exitcode = 0) =>
                       r.nMut = (IF r.state_name = "success" THEN 2 ELSE 1))
    /\ [][\A p \in Procs :
            /\ (inv[p].pc \in {"mutate", "reg_write"} /\ inv'[p].pc = "done") =>
                   /\ inv'[p].exitcode # 0
                   /\ inv'[p].cmds = inv[p].cmds /\ inv'[p].nMut = inv[p].nMut
                   /\ light' = light
            /\ (inv[p].pc = "done" /\ inv[p].exitcode # 0) =>
                   (inv'[p].cmds = inv[p].cmds /\ light' = light)]_vars

C14_Witness ==
    /\ inv["A"].pc = "done" /\ inv["A"].exitcode = 1 /\ ~inv["A"].killed
    /\ inv["A"].state_name = "success"
    /\ inv["A"].nMut = 1 /\ inv["A"].cmds = <<"success">>
    /\ files["A"] = Empty
    /\ seed["B"] = Absent /\ seed["C"] = Absent
    /\ light = "success"

\* C15: the winner one run of resolve_winning_state returns has the highest
\* priority of the registry as it stood at one moment between the listing
\* and the last read of that run, whatever other sessions register or
\* unregister meanwhile.
C15_ResolveIsSnapshot ==
    [][\A p \in Procs :
          (inv[p].pc \in {"rs_begin", "rs_loop"} /\ inv'[p].pc = "cmd") =>
              PriorityGet(inv'[p].winning) \in inv[p].snaps \cup {MaxPriority(files)}]_vars

\* C16: when invocations do not overlap and every call of the lamp
\* succeeds, the command that ends a session-aware invocation carries the
\* highest-priority state among the records then in the registry, off when
\* the registry is empty, and is the last command the lamp has received.
C16_SerialInvocationsConverge ==
    [][\A p \in Procs :
          (SessionAware(inv[p]) /\ inv[p].pc = "cmd" /\ inv'[p].pc = "done") =>
              /\ inv'[p].exitcode = 0
              /\ light' = LastCommand(inv'[p])
              /\ IsWinnerOf(light', files')
              /\ Listing(files') = {} => light' = "off"]_vars

C16_Witness ==
    /\ started = 3
    /\ inv["B"].pc = "done" /\ inv["B"].state_name = "thinking"
    /\ inv["B"].cmds = <<"attention">>
    /\ inv["A"].pc = "done" /\ inv["A"].state_name = "off" /\ inv["A"].exitcode = 0
    /\ inv["A"].cmds = <<"thinking">>
    /\ files["A"] = Absent /\ files["B"].state = "thinking"
    /\ light = "thinking"

\* The states the records of the sessions other than sid hold.
OtherStates(fs, sid) == {GetState(fs[s]) : s \in {x \in Sessions \ {sid} : fs[x].kind = "json"}}

\* C17: both commands of the session-aware success path carry what the
\* resolver finds then.  When another session holds a state of priority
\* above 20 as the first command is sent, that command is the highest of
\* the other sessions' states and not success; when, after the sleep,
\* another session holds a state of priority above 10, the final command is
\* the highest-priority state registered then and not session.
C17_SuccessPathResolvesTwice ==
    [][\A p \in Procs :
          LET r == inv[p]
              others == OtherStates(files, r.session_id)
          IN
          (SessionAware(r) /\ r.state_name = "success" /\ r.pc = "cmd" /\ inv'[p].pc # "cmd") =>
              /\ inv'[p].cmds = Append(r.cmds, light')
              /\ IsWinnerOf(light', files)
              /\ (r.phase = 1 /\ \E st \in others : PriorityGet(st) > STATE_PRIORITY["success"]) =>
                     /\ light' # "success"
                     /\ light' \in others
                     /\ inv'[p].pc = "sleep"
              /\ (r.phase = 2 /\ \E st \in others : PriorityGet(st) > STATE_PRIORITY["session"]) =>
                     /\ light' # "session"
                     /\ light' \in others
                     /\ inv'[p].pc = "done"]_vars

C17_Witness ==
    /\ started = 3
    /\ inv["A"].pc = "done" /\ inv["A"].state_name = "success" /\ inv["A"].exitcode = 0
    /\ inv["A"].cmds = <<"thinking", "attention">>
    /\ inv["B"].pc = "done" /\ inv["B"].state_name = "attention"
    /\ files["A"].state = "session" /\ files["B"].state = "attention"
    /\ files["B"].timestamp < files["A"].timestamp
    /\ light = "attention"

\* The session-aware success invocation r was killed in its sleep.
KilledAsleep(r) ==
    /\ SessionAware(r) /\ r.pc = "done" /\ r.killed
    /\ r.state_name = "success" /\ r.phase = 1 /\ Len(r.cmds) = 1

\* C18: a session-aware success invocation killed during its sleep leaves
\* the record of its session at success.  The record stays, and counts with
\* priority 20 in the resolution of every other session, until the garbage
\* collection of a later invocation finds it more than 3600 seconds old and
\* removes it, or the same session is invoked again.
C18_KilledAsleepLeavesSuccess ==
    /\ [](\A p \in Procs :
            KilledAsleep(inv[p]) =>
                /\ files[p] = Absent \/ (files[p].kind = "json" /\ files[p].state = "success")
                /\ \A q \in Procs \ {p} :
                       (inv[q].pc = "cmd" /\ files[p] # Absent) =>
                           /\ PriorityGet(inv[q].winning) >= 20
                           /\ IsWinnerOf(inv[q].winning, files))
    /\ [][\A p \in Procs :
            /\ (inv[p].pc = "sleep" /\ KilledAsleep(inv'[p])) =>
                   /\ files' = files
                   /\ files'[p].kind = "json" /\ files'[p].state = "success"
            /\ (KilledAsleep(inv[p]) /\ KilledAsleep(inv'[p]) /\ files'[p] # files[p]) =>
                   /\ files'[p] = Absent
                   /\ \E q \in Procs \ {p} :
                          /\ inv[q].pc = "gc_unlink" /\ inv[q].f = p
                          /\ inv[q].now - files[p].timestamp > 3600]_vars

C18_Witness ==
    /\ KilledAsleep(inv["A"])
    /\ files["A"].kind = "json" /\ files["A"].state = "success"
    /\ clock - files["A"].timestamp >= STALE_THRESHOLD
    /\ inv["B"].pc = "done" /\ inv["B"].state_name = "off" /\ inv["B"].exitcode = 0
    /\ inv["B"].now > files["A"].timestamp
    /\ inv["B"].cmds = <<"success">>
    /\ light = "success"

\* A registry with the records taken away whose state is no key of the
\* priority table or that have no state field.
WithoutUnknown(fs) ==
    [s \in Sessions |->
        IF fs[s].kind = "json" /\ fs[s].state \notin DOMAIN STATE_PRIORITY THEN Absent ELSE fs[s]]

\* C19: a record whose state is no key of the priority table, or that has
\* no state field, has priority 0 and is never the winner: the resolver
\* returns what it returns without that record.  Whatever the registry
\* holds the resolver returns a key of STATES, so the command of the
\* resolved winner never takes the unknown-state exit of set_light_state.
C19_ResolverReturnsCatalogState ==
    /\ started = 0 =>
           /\ ResolveWinningState(files) = ResolveWinningState(WithoutUnknown(files))
           /\ ResolveWinningState(files) \subseteq STATES
           /\ \A s \in Sessions :
                  (files[s].kind = "json" /\ files[s].state \notin DOMAIN STATE_PRIORITY) =>
                      PriorityGet(GetState(files[s])) = 0
    /\ \A p \in Procs :
           LET r == inv[p] IN
           SessionAware(r) =>
               /\ r.pc \in {"rs_begin", "rs_loop", "cmd"} => r.best.state \in STATES
               /\ r.pc = "cmd" =>
                      /\ r.winning \in STATES
                      /\ CommandedState(r) \in STATES
                      /\ IsWinnerOf(r.winning, WithoutUnknown(files))
               /\ (r.pc = "done" /\ r.nRes = Len(r.cmds) + 1) => r.winning \in STATES

C19_Witness ==
    /\ inv["A"].pc = "done" /\ inv["A"].state_name = "off" /\ inv["A"].exitcode = 0
    /\ seed["B"] = Json(Bogus, SeedClock) /\ files["B"] = seed["B"]
    /\ seed["C"] = Json("session", SeedClock) /\ files["C"] = seed["C"]
    /\ files["A"] = Absent
    /\ inv["A"].cmds = <<"session">> /\ light = "session"

====
